---- MODULE Spec2Model ----
(***************************************************************************)
(* steamy_py.client.Client: the request execution core.                    *)
(*                                                                         *)
(* One Client object shared by the coroutines of one asyncio event loop.   *)
(* A coroutine runs without interruption between two awaits that suspend,  *)
(* so every action below is the code from one suspension point to the next.*)
(* Time is a discrete clock; one tick is 1/TicksPerSecond seconds and all  *)
(* durations (RETRY_DELAY, Retry-After, sleeps) are held in ticks.         *)
(***************************************************************************)
EXTENDS Integers, Sequences, FiniteSets, TLC

\* Python's None, for the string-valued attributes and arguments.
None == "None"

\* The absent value of the time-valued history fields.
NoTime == 0 - 1

\* ------------------------------------------------------------------ bounds

\* settings.MAX_RETRIES is drawn from 0..MaxRetriesBound.
MaxRetriesBound == 2
\* settings.RETRY_DELAY is drawn from 1..MaxDelay (ticks).
MaxDelay == 1
\* A numeric Retry-After header is drawn from 1..MaxRetryAfter (ticks).
MaxRetryAfter == 2
\* The clock runs from Epoch to Epoch + Horizon.
Horizon == 3
\* At most MaxSessions ClientSession objects are constructed.
MaxSessions == 2

\* The coroutines that can call Client.request on the one Client.
Calls == {"c1", "c2"}

\* The 1.0 second of `1.0 / REQUESTS_PER_SECOND`, in ticks.
TicksPerSecond == 2

\* time.time() when the Client is constructed: far from the initial
\* _last_request_time of 0.0 (at least one full minimum interval).
Epoch == TicksPerSecond

\* ------------------------------------------------------------------ state

VARIABLES
    api_key,            \* Client.api_key
    access_token,       \* Client.access_token
    settings,           \* Client.settings (read-only after construction)
    session,            \* Client._session
    last_request_time,  \* Client._last_request_time
    now,                \* time.time()
    calls,              \* one record per coroutine running Client.request
    open_sessions,      \* ids of the ClientSession objects that are open
    scope,              \* where the application is around `async with`
    app_params,         \* a dict of the application, passed as `params`
    steam               \* the Steam object: its inputs and what it built

vars == <<api_key, access_token, settings, session, last_request_time, now, calls,
         open_sessions, scope, app_params, steam>>

\* ------------------------------------------------------------------ values

\* Credentials a Client can be constructed with: absent, empty, or a secret.
ApiKeys == {None, "", "KEY"}
AccessTokens == {None, "", "TOKEN"}

\* The (api_key, access_token) pairs the Clients are constructed with: every
\* combination of present and absent, with both forms of absent.
Credentials ==
    { <<None, "">>, <<"", "TOKEN">>, <<"KEY", None>>, <<"KEY", "TOKEN">> }

\* The auth_type argument of Client.request.
AuthTypes == {"api_key", "access_token", "none", "cookie"}

\* Settings objects (steamy_py.config.Settings), durations in ticks.
AllSettings ==
    [ MAX_RETRIES : 0..MaxRetriesBound,
      RETRY_DELAY : 1..MaxDelay,
      REQUESTS_PER_SECOND : {1, TicksPerSecond},
      RATE_LIMIT_ENABLED : BOOLEAN ]

\* REQUESTS_PER_SECOND is read only when RATE_LIMIT_ENABLED: one value of it
\* stands for all when the limiter is off.
SettingsSpace ==
    { s \in AllSettings : s.RATE_LIMIT_ENABLED \/ s.REQUESTS_PER_SECOND = 1 }

\* Python truthiness of an optional string: None and "" are falsy.
Truthy(s) == s # None /\ s # ""

\* Client._session: id 0 is None, a positive id is the id-th ClientSession
\* constructed by this Client.
NoSession == [id |-> 0, closed |-> FALSE]

\* `self._session` as a condition: None is falsy, any ClientSession is truthy.
SessionTruthy(s) == s.id # 0

\* `self._session and not self._session.closed`
SessionLive(s) == SessionTruthy(s) /\ ~s.closed

\* ClientSession(...) of Client.connect: a new object, open.
NewSession(s) == [id |-> s.id + 1, closed |-> FALSE]

\* Exceptions: the type, what raised it, and the attempt it belongs to
\* (two errors of different attempts are different objects).
Exc(type, what, attempt) == [type |-> type, what |-> what, attempt |-> attempt]
NoException == Exc("None", "None", 0 - 1)

\* -------------------------------------------------------------- responses

\* The Retry-After header of a 429 response: absent, a number, or a value
\* float() cannot parse (an HTTP-date).
HttpDate == "Wed, 21 Oct 2026 07:28:00 GMT"
RetryAfterHeaders == {None, HttpDate} \cup {ToString(n) : n \in 1..MaxRetryAfter}

\* What the transport can answer to one dispatch.
Responses ==
    {[kind |-> k, retry_after |-> None] : k \in {"ok", "bad_json", "error", "timeout"}}
    \cup {[kind |-> "throttled", retry_after |-> h] : h \in RetryAfterHeaders}

\* ------------------------------------------------------------- call records

\* No 429 response is being handled.
NoResponse == "no 429"

\* A coroutine that is not inside Client.request.
IdleCall ==
    [ pc             |-> "idle",
      auth_type      |-> None,
      attempt        |-> 0,            \* the loop variable `attempt`
      wake           |-> NoTime,       \* when the pending asyncio.sleep is due
      last_exception |-> NoException,  \* the local `last_exception`
      error          |-> NoException,  \* the exception raised to the caller
      result         |-> 0 - 1,        \* the attempt whose decoded body was returned
      dispatches     |-> 0,            \* transport requests issued (the spy)
      resps          |-> << >>,        \* kinds of the responses received
      waits          |-> << >>,        \* backoff sleeps, in order
      live0          |-> TRUE,         \* the session was live after lines 117-118
      first_dispatch |-> NoTime,       \* time of the dispatch of attempt 0
      last_dispatch  |-> NoTime,       \* time of the latest dispatch
      pred_last      |-> NoTime,       \* latest dispatch of the calls this
                                       \* coroutine completed before this one
      branch         |-> None,         \* the path taken through _rate_limit
      seen_last      |-> NoTime,       \* _last_request_time as read by _rate_limit
      sleep_for      |-> NoTime,       \* argument of the pending asyncio.sleep
      throttled_with |-> NoResponse,   \* Retry-After of the 429 being handled
      caller_params  |-> {},           \* the items of the argument `params`
      params         |-> {},           \* the local `params` after lines 121-138
      sent           |-> << >>,        \* params of each transport request (the spy)
      via            |-> None ]        \* the repository method that made the call

Finished(r) == r.pc \in {"idle", "returned", "raised"}

\* `raise e` out of Client.request.
Raise(r, e) == [r EXCEPT !.pc = "raised", !.error = e]

\* ------------------------------------------------------------ Client.request

\* AuthCheck with the access-token test forgotten.
AuthCheck_NoTokenTest(auth_type) ==
    IF auth_type = "api_key" /\ ~Truthy(api_key)
    THEN Exc("ValueError", "API key is required but not provided", 0 - 1)
    ELSE IF auth_type \in {"api_key", "access_token", "none"}
    THEN NoException
    ELSE Exc("ValueError", "Invalid auth_type", 0 - 1)

\* Lines 124-138: the exception of the authentication step, if any.
AuthCheck(auth_type) ==
    IF auth_type = "api_key"
    THEN IF ~Truthy(api_key)
         THEN Exc("ValueError", "API key is required but not provided", 0 - 1)
         ELSE NoException
    ELSE IF auth_type = "access_token"
    THEN IF ~Truthy(access_token)
         THEN Exc("ValueError", "Access token is required but not provided", 0 - 1)
         ELSE NoException
    ELSE IF auth_type = "none"
    THEN NoException
    ELSE Exc("ValueError", "Invalid auth_type", 0 - 1)

\* d[k] = v on a dict, held as its set of <<key, value>> items.
Put(d, k, v) == {kv \in d : kv[1] # k} \cup {<<k, v>>}

\* Lines 121-122: `if params is None: params = {}`; any other argument
\* is the application's dict, passed by reference.
Base(params) == IF params = None THEN {} ELSE app_params

\* Lines 124-138 when no exception is raised: the credential of auth_type
\* is stored into the dict.
Merged(auth_type, d) ==
    IF auth_type = "api_key" THEN Put(d, "key", api_key)
    ELSE IF auth_type = "access_token" THEN Put(d, "access_token", access_token)
    ELSE d

\* AttemptParams with a retry sending the dict as the caller passed it.
AttemptParams_RetryUnmerged(r) == IF r.attempt = 0 THEN r.params ELSE r.caller_params

\* Line 152: params=params, the local dict, at every iteration.
AttemptParams(r) == r.params

\* _rate_limit with the test of line 80 left out.
RateLimitEnabled_Always == TRUE

\* Lines 80-81: `if not self.settings.RATE_LIMIT_ENABLED: return`.
RateLimitEnabled == settings.RATE_LIMIT_ENABLED

\* Line 85: min_interval = 1.0 / REQUESTS_PER_SECOND, in ticks.
MinInterval == TicksPerSecond \div settings.REQUESTS_PER_SECOND

\* Stamp with the timestamp left as it was.
Stamp_Stale(t) == last_request_time

\* Line 91: self._last_request_time = time.time(), at time t.
Stamp(t) == t

\* LoopRange as range(MAX_RETRIES).
LoopRange_OffByOne == 0..(settings.MAX_RETRIES - 1)

\* Line 145: range(MAX_RETRIES + 1).
LoopRange == 0..settings.MAX_RETRIES

\* RetryAllowed with a backoff after every failure.
RetryAllowed_Always(attempt) == TRUE

\* Line 181: attempt < MAX_RETRIES.
RetryAllowed(attempt) == attempt < settings.MAX_RETRIES

\* Backoff with the exponent counted from 1.
Backoff_FromOne(attempt) == settings.RETRY_DELAY * (2 ^ (attempt + 1))

\* Line 182: RETRY_DELAY * (2**attempt).
Backoff(attempt) == settings.RETRY_DELAY * (2 ^ attempt)

\* RecordException keeping the first exception of the call.
RecordException_KeepFirst(prev, e) == IF prev = NoException THEN e ELSE prev

\* Line 180: last_exception = e.
RecordException(prev, e) == e

\* Line 192: last_exception or ClientError("Request failed for unknown reason").
AfterLoop(last_exception) ==
    IF last_exception = NoException
    THEN Exc("ClientError", "Request failed for unknown reason", 0 - 1)
    ELSE last_exception

\* float(s) on a header value: the number it spells, if it spells one.
IsFloat(s) == \E n \in 0..MaxRetryAfter : ToString(n) = s
ParseFloat(s) == CHOOSE n \in 0..MaxRetryAfter : ToString(n) = s

\* Lines 151-153: self._session.request(...). aiohttp refuses a closed
\* session with RuntimeError before any I/O; otherwise the request is sent.
Dispatch(r, sess) ==
    IF sess.closed
    THEN Raise(r, Exc("RuntimeError", "Session is closed", r.attempt))
    ELSE [r EXCEPT !.pc = "in_flight",
                   !.dispatches = @ + 1,
                   !.sent = Append(@, AttemptParams(r)),
                   !.first_dispatch = IF r.attempt = 0 THEN now ELSE @,
                   !.last_dispatch = now]

\* ContinueIndex with the 429 branch trying the same index again.
ContinueIndex_SameIndex(attempt) == attempt

\* Line 165 and line 145: `continue` makes the for loop take the next
\* value of range(MAX_RETRIES + 1).
ContinueIndex(attempt) == attempt + 1

\* Line 145 and line 192: the head of the for loop with r.attempt the next
\* index: one more iteration, or the raise after the loop.
LoopTop(r, sess) ==
    IF r.attempt \in LoopRange
    THEN Dispatch(r, sess)
    ELSE Raise(r, AfterLoop(r.last_exception))

\* Lines 155-165: a 429 response. float() of a malformed header raises
\* ValueError inside the try; it is no ClientError and leaves the call.
OnThrottled(r, header) ==
    LET r1 == [r EXCEPT !.throttled_with = header]
    IN  IF header # None /\ ~IsFloat(header)
        THEN Raise(r1, Exc("ValueError", "could not convert string to float", r.attempt))
        ELSE LET retry_after == IF header = None THEN settings.RETRY_DELAY
                                ELSE ParseFloat(header)
             IN  [r1 EXCEPT !.pc = "throttle_sleep",
                            !.wake = now + retry_after,
                            !.sleep_for = retry_after]

\* Lines 179-190: except ClientError as e.
OnClientError(r, e, sess) ==
    LET r1 == [r EXCEPT !.last_exception = RecordException(@, e)]
    IN  IF RetryAllowed(r.attempt)
        THEN [r1 EXCEPT !.pc = "backoff_sleep",
                        !.wake = now + Backoff(r.attempt),
                        !.sleep_for = Backoff(r.attempt),
                        !.waits = Append(@, Backoff(r.attempt))]
        ELSE LoopTop([r1 EXCEPT !.attempt = @ + 1], sess)

\* Lines 168-177: what the body of the `async with` raises for a response
\* that is not a 429: raise_for_status() raises a ClientError on a non-2xx
\* status (a network failure raises one too); an undecodable body is
\* re-raised as ValueError.
TransportError(attempt) == Exc("ClientError", "transport failure", attempt)

\* DecodeError with aiohttp's ContentTypeError (a ClientError) let through.
DecodeError_Uncaught(attempt) == Exc("ClientError", "ContentTypeError", attempt)

DecodeError(attempt) == Exc("ValueError", "Invalid JSON response", attempt)

\* Lines 58 and 151-171: the session is built with ClientTimeout(total=
\* REQUEST_TIMEOUT) and no socket timeouts, so an attempt that runs out of
\* time ends with asyncio.TimeoutError, which is no ClientError.
TimeoutError(attempt) == Exc("TimeoutError", "asyncio.TimeoutError", attempt)

\* Lines 146-190: one response, handled up to the next suspension.
OnResponse(r, resp, sess) ==
    LET r1 == [r EXCEPT !.resps = Append(@, resp.kind)]
        e  == IF resp.kind = "error" THEN TransportError(r.attempt)
              ELSE IF resp.kind = "bad_json" THEN DecodeError(r.attempt)
              ELSE IF resp.kind = "timeout" THEN TimeoutError(r.attempt)
              ELSE NoException
    IN  IF resp.kind = "throttled" THEN OnThrottled(r1, resp.retry_after)
        ELSE IF e = NoException THEN [r1 EXCEPT !.pc = "returned", !.result = r.attempt]
        ELSE IF e.type = "ClientError" THEN OnClientError(r1, e, sess)
        ELSE Raise(r1, e)

\* connect() with the test of line 55 left out.
ConnectSession_NoGuard(s) == NewSession(s)

\* Lines 55-68: connect() keeps a live session and otherwise constructs one.
ConnectSession(s) == IF SessionLive(s) THEN s ELSE NewSession(s)

\* close() without the test of line 74.
CloseSession_NoGuard(s) == [s EXCEPT !.closed = TRUE]

\* Lines 74-76: close() closes a live session and keeps the reference.
CloseSession(s) == IF SessionLive(s) THEN [s EXCEPT !.closed = TRUE] ELSE s

\* The ClientSession objects that are open once self._session is s1: s1 if
\* it is an open session, and every other object as it was (nothing but
\* close() on self._session closes one).
OpenAfter(s1, open) ==
    IF s1.id = 0 THEN open
    ELSE IF s1.closed THEN open \ {s1.id}
    ELSE open \cup {s1.id}

\* The pending waits of Client.request and Client._rate_limit.
Sleeping(r) == r.pc \in {"pace_sleep", "throttle_sleep", "backoff_sleep"}

\* Blocks with the waits done by time.sleep(), which keeps the thread of
\* the event loop.
Blocks_TimeSleep(r) == Sleeping(r)

\* Lines 89, 164 and 186: the waits are `await asyncio.sleep(...)`, which
\* suspends the calling coroutine and hands the thread to the event loop;
\* a call that waits keeps no other coroutine from running.
Blocks(r) == FALSE

\* The event loop can run coroutine c.
Runnable(c) == \A d \in DOMAIN calls \ {c} : ~Blocks(calls[d])

\* ----------------------------------------------------------------- actions

TypeOK ==
    /\ api_key \in ApiKeys
    /\ access_token \in AccessTokens
    /\ settings \in SettingsSpace
    /\ session.id \in 0..MaxSessions
    /\ now \in Epoch..(Epoch + Horizon)
    /\ last_request_time \in 0..(Epoch + Horizon)

\* The Client was constructed directly, without a Steam object.
NoSteam == [status |-> "none"]

\* Client.__init__ (lines 32-36), and the coroutines of the application.
Construct(coroutines) ==
    /\ \E cred \in Credentials : api_key = cred[1] /\ access_token = cred[2]
    /\ settings \in SettingsSpace
    /\ session = NoSession
    /\ last_request_time = 0
    /\ now = Epoch
    /\ calls = [c \in coroutines |-> IdleCall]
    /\ open_sessions = {}
    /\ scope = "outside"
    /\ app_params = {<<"steamid", "1">>}
    /\ steam = NoSteam

\* An application that awaits one request at a time.
Init == Construct({"c1"})

\* An application that runs two coroutines on a rate-limited Client with
\* both credentials.
InitConcurrent ==
    /\ Construct(Calls)
    /\ settings.RATE_LIMIT_ENABLED
    /\ settings.MAX_RETRIES <= 1
    /\ Truthy(api_key) /\ Truthy(access_token)

\* Client.connect (lines 53-70), called by the application.
Connect ==
    /\ SessionLive(session) \/ session.id < MaxSessions
    /\ session' = ConnectSession(session)
    /\ open_sessions' = OpenAfter(session', open_sessions)
    /\ UNCHANGED <<steam, app_params, api_key, access_token, settings, last_request_time, now, calls, scope>>

\* Client.close (lines 72-76), called by the application.
Close ==
    /\ session' = CloseSession(session)
    /\ open_sessions' = OpenAfter(session', open_sessions)
    /\ UNCHANGED <<steam, app_params, api_key, access_token, settings, last_request_time, now, calls, scope>>

\* The methods of the repositories that are modelled.
FamilyEndpoints == {"get_family_group", "get_family_group_for_user"}
MarketEndpoints == {"get_item_price"}

\* The dict a repository method builds for its call: FamilyAPI methods
\* (family.py lines 350-354, 393-395) with their optional argument given,
\* MarketAPI.get_item_price (market.py lines 68-72).
RepoParams(via) ==
    IF via \in FamilyEndpoints THEN {<<"steamid", "1">>}
    ELSE {<<"appid", "730">>, <<"market_hash_name", "item">>, <<"currency", "1">>}

\* Client.request from its entry to its first suspension (lines 117-153):
\* lazy connect, authentication, _rate_limit, and, when _rate_limit does
\* not sleep, the dispatch of attempt 0.
StartVia(c, auth_type, params, via) ==
    /\ Finished(calls[c])
    /\ Runnable(c)
    /\ LET sess == IF ~SessionTruthy(session) THEN ConnectSession(session) ELSE session
           prev == calls[c]
           e    == AuthCheck(auth_type)
           passed == IF via = None THEN Base(params) ELSE RepoParams(via)
           local == IF e # NoException THEN passed ELSE Merged(auth_type, passed)
           r0   == [IdleCall EXCEPT
                      !.auth_type = auth_type,
                      !.via = via,
                      !.caller_params = passed,
                      !.params = local,
                      !.live0 = SessionLive(sess),
                      !.pred_last = IF prev.last_dispatch # NoTime
                                    THEN prev.last_dispatch ELSE prev.pred_last]
       IN  /\ session' = sess
           /\ app_params' = IF params = "app_params" THEN local ELSE app_params
           /\ open_sessions' = OpenAfter(sess, open_sessions)
           /\ IF e # NoException
              THEN /\ calls' = [calls EXCEPT ![c] = Raise(r0, e)]
                   /\ UNCHANGED last_request_time
              ELSE IF ~RateLimitEnabled
              THEN /\ calls' = [calls EXCEPT ![c] =
                                  LoopTop([r0 EXCEPT !.branch = "disabled"], sess)]
                   /\ UNCHANGED last_request_time
              ELSE LET time_since_last == now - last_request_time
                       r1 == [r0 EXCEPT !.seen_last = last_request_time]
                   IN  IF time_since_last < MinInterval
                       THEN /\ calls' = [calls EXCEPT ![c] =
                                  [r1 EXCEPT !.pc = "pace_sleep",
                                             !.branch = "wait",
                                             !.wake = now + (MinInterval - time_since_last),
                                             !.sleep_for = MinInterval - time_since_last]]
                            /\ UNCHANGED last_request_time
                       ELSE /\ last_request_time' = Stamp(now)
                            /\ calls' = [calls EXCEPT ![c] =
                                  LoopTop([r1 EXCEPT !.branch = "nowait"], sess)]
    /\ UNCHANGED <<steam, api_key, access_token, settings, now, scope>>

\* Client.request called by the application, with params None or the
\* application's dict.
Start(c, auth_type, params) ==
    /\ params \in {None, "app_params"}
    /\ StartVia(c, auth_type, params, None)

\* _rate_limit resumes from asyncio.sleep (lines 89-91); the dispatch of
\* attempt 0 follows without a suspension.
PaceWake(c) ==
    /\ calls[c].pc = "pace_sleep"
    /\ Runnable(c)
    /\ now >= calls[c].wake
    /\ last_request_time' = Stamp(now)
    /\ calls' = [calls EXCEPT ![c] = LoopTop([calls[c] EXCEPT !.wake = NoTime, !.sleep_for = NoTime], session)]
    /\ UNCHANGED <<steam, app_params, api_key, access_token, settings, session, now, open_sessions, scope>>

\* The transport answers the request in flight.
Respond(c, resp) ==
    /\ calls[c].pc = "in_flight"
    /\ Runnable(c)
    /\ calls' = [calls EXCEPT ![c] = OnResponse(calls[c], resp, session)]
    /\ UNCHANGED <<steam, app_params, api_key, access_token, settings, session, last_request_time, now,
                   open_sessions, scope>>

\* asyncio.sleep(retry_after) returns; `continue` takes the next index.
ThrottleWake(c) ==
    /\ calls[c].pc = "throttle_sleep"
    /\ Runnable(c)
    /\ now >= calls[c].wake
    /\ calls' = [calls EXCEPT ![c] =
                   LoopTop([calls[c] EXCEPT !.attempt = ContinueIndex(@), !.wake = NoTime,
                                            !.sleep_for = NoTime,
                                            !.throttled_with = NoResponse], session)]
    /\ UNCHANGED <<steam, app_params, api_key, access_token, settings, session, last_request_time, now,
                   open_sessions, scope>>

\* asyncio.sleep(sleep_time) returns; the loop takes the next index.
BackoffWake(c) ==
    /\ calls[c].pc = "backoff_sleep"
    /\ Runnable(c)
    /\ now >= calls[c].wake
    /\ calls' = [calls EXCEPT ![c] =
                   LoopTop([calls[c] EXCEPT !.attempt = @ + 1, !.wake = NoTime,
                                            !.sleep_for = NoTime,
                                            !.throttled_with = NoResponse], session)]
    /\ UNCHANGED <<steam, app_params, api_key, access_token, settings, session, last_request_time, now,
                   open_sessions, scope>>

\* Time passes.
Tick ==
    /\ now < Epoch + Horizon
    /\ now' = now + 1
    /\ UNCHANGED <<steam, app_params, api_key, access_token, settings, session, last_request_time, calls,
                   open_sessions, scope>>

\* No coroutine is inside Client.request. An application with a single
\* coroutine calls connect() and close() between its requests, since it is
\* suspended while a request is in progress.
Quiescent == \A c \in DOMAIN calls : Finished(calls[c])

Next ==
    \/ Quiescent /\ Connect
    \/ Quiescent /\ Close
    \/ \E c \in DOMAIN calls, a \in AuthTypes : Start(c, a, None)
    \/ \E c \in DOMAIN calls : PaceWake(c)
    \/ \E c \in DOMAIN calls, resp \in Responses : Respond(c, resp)
    \/ \E c \in DOMAIN calls : ThrottleWake(c)
    \/ \E c \in DOMAIN calls : BackoffWake(c)
    \/ Tick

Spec == Init /\ [][Next]_vars

\* The answers of a server that sends well-formed responses in time: a
\* decodable body, a non-2xx status, or a 429 without Retry-After.
ResponsesConcurrent ==
    {resp \in Responses : /\ resp.kind \in {"ok", "error", "throttled"}
                          /\ resp.retry_after = None}

\* Two coroutines sharing the Client between its connect() and its close(),
\* each issuing api_key requests.
NextConcurrent ==
    \/ \E c \in DOMAIN calls : Start(c, "api_key", None)
    \/ \E c \in DOMAIN calls : PaceWake(c)
    \/ \E c \in DOMAIN calls, resp \in ResponsesConcurrent : Respond(c, resp)
    \/ \E c \in DOMAIN calls : ThrottleWake(c)
    \/ \E c \in DOMAIN calls : BackoffWake(c)
    \/ Tick

SpecConcurrent == InitConcurrent /\ [][NextConcurrent]_vars

\* Steam.is_connected (steam.py lines 131-134), on the Client a Steam wraps.
IsConnected == SessionTruthy(session) /\ ~session.closed

\* __aexit__ closing only when the block ended without an exception.
AExitSession_OnlyClean(s, exc) == IF exc = NoException THEN CloseSession(s) ELSE s

\* Client.__aexit__ (lines 49-51) and Steam.__aexit__ (steam.py lines
\* 112-115): close(), whatever exception the block ended with.
AExitSession(s, exc) == CloseSession(s)

\* The exception a call that is suspended gets when its task is cancelled.
Cancelled(attempt) == Exc("CancelledError", "task cancelled", attempt)

\* Entering `async with Client(...)` / `async with Steam(...)`:
\* Client.__aenter__ (lines 44-47), Steam.__aenter__ (steam.py 106-110).
AEnter ==
    /\ scope = "outside"
    /\ SessionLive(session) \/ session.id < MaxSessions
    /\ session' = ConnectSession(session)
    /\ open_sessions' = OpenAfter(session', open_sessions)
    /\ scope' = "inside"
    /\ UNCHANGED <<steam, app_params, api_key, access_token, settings, last_request_time, now, calls>>

\* Leaving the block. exc is NoException when the body ran to its end or
\* handled the error of its call, the error of a call that raised when the
\* body let it through, and CancelledError when the task is cancelled while
\* its call is suspended.
AExit(exc) ==
    /\ scope = "inside"
    /\ \/ exc = NoException /\ \A c \in DOMAIN calls : Finished(calls[c])
       \/ \E c \in DOMAIN calls : calls[c].pc = "raised" /\ exc = calls[c].error
       \/ \E c \in DOMAIN calls : ~Finished(calls[c]) /\ exc = Cancelled(calls[c].attempt)
    /\ calls' = [c \in DOMAIN calls |->
                   IF Finished(calls[c]) THEN calls[c]
                   ELSE Raise([calls[c] EXCEPT !.wake = NoTime, !.sleep_for = NoTime], exc)]
    /\ session' = AExitSession(session, exc)
    /\ open_sessions' = OpenAfter(session', open_sessions)
    /\ scope' = IF exc = NoException THEN "exited" ELSE "exited_on_error"
    /\ UNCHANGED <<steam, app_params, api_key, access_token, settings, last_request_time, now>>

\* The exceptions a block can end with.
ExitExceptions ==
    {NoException}
      \cup {calls[c].error : c \in {d \in DOMAIN calls : calls[d].pc = "raised"}}
      \cup {Cancelled(calls[c].attempt) : c \in DOMAIN calls}

\* An application that makes its requests in one `async with` block.
InitScoped ==
    /\ Construct({"c1"})
    /\ settings.MAX_RETRIES <= 1

NextScoped ==
    \/ AEnter
    \/ \E exc \in ExitExceptions : AExit(exc)
    \/ \E c \in DOMAIN calls, a \in AuthTypes, p \in {None, "app_params"} :
           scope = "inside" /\ Start(c, a, p)
    \/ \E c \in DOMAIN calls : PaceWake(c)
    \/ \E c \in DOMAIN calls, resp \in Responses : Respond(c, resp)
    \/ \E c \in DOMAIN calls : ThrottleWake(c)
    \/ \E c \in DOMAIN calls : BackoffWake(c)
    \/ Tick

SpecScoped == InitScoped /\ [][NextScoped]_vars

\* -------------------------------------------------- Steam and repositories

\* os.getenv("STEAM_API_KEY") and os.getenv("STEAM_ACCESS_TOKEN"): None when
\* the variable is unset, else its value, which can be empty.
EnvKeys == {None, "", "ENV_KEY"}
EnvTokens == {None, "", "ENV_TOKEN"}

\* What Steam.__init__ constructs on success (steam.py lines 93-102).
SteamParts == {"client", "player", "games", "market", "stats", "family"}

\* steam.py lines 71-79: an argument that is falsy is replaced by the
\* environment variable.
OrEnv(arg, env) == IF ~Truthy(arg) THEN env ELSE arg

\* NoCredential looking at the API key only.
NoCredential_KeyOnly(key, token) == ~Truthy(key)

\* steam.py line 81: `if not api_key and not access_token`.
NoCredential(key, token) == ~Truthy(key) /\ ~Truthy(token)

ConfigurationError == Exc("ConfigurationError", "Either Steam API key or access token is required", 0 - 1)

\* Steam(api_key, access_token, settings) about to be constructed in some
\* environment; the Client variables hold what Client.__init__ will set
\* apart from the credentials.
InitSteam ==
    /\ steam \in [ status : {"new"},
                   api_key : ApiKeys, access_token : AccessTokens,
                   env_key : EnvKeys, env_token : EnvTokens,
                   error : {NoException}, made : {{}} ]
    /\ api_key = None
    /\ access_token = None
    /\ settings \in {st \in SettingsSpace : st.MAX_RETRIES <= 1}
    /\ session = NoSession
    /\ last_request_time = 0
    /\ now = Epoch
    /\ calls = [c \in {"c1"} |-> IdleCall]
    /\ open_sessions = {}
    /\ scope = "outside"
    /\ app_params = {<<"steamid", "1">>}

\* Steam.__init__ (steam.py lines 70-104).
SteamInit ==
    /\ steam.status = "new"
    /\ LET key   == OrEnv(steam.api_key, steam.env_key)
           token == OrEnv(steam.access_token, steam.env_token)
       IN  IF NoCredential(key, token)
           THEN /\ steam' = [steam EXCEPT !.status = "failed", !.error = ConfigurationError]
                /\ UNCHANGED <<api_key, access_token>>
           ELSE /\ steam' = [steam EXCEPT !.status = "constructed", !.made = SteamParts]
                /\ api_key' = key
                /\ access_token' = token
    /\ UNCHANGED <<settings, session, last_request_time, now, calls, open_sessions,
                   scope, app_params>>

\* A FamilyAPI method up to the first suspension of its Client.request
\* (family.py, e.g. lines 350-363 and 393-404): auth_type "access_token".
FamilyCall(c, endpoint) ==
    /\ steam.status = "constructed"
    /\ endpoint \in FamilyEndpoints
    /\ StartVia(c, "access_token", "local", endpoint)

\* Line 98 of client.py: auth_type of Client.request when none is passed.
DefaultAuthType == "api_key"

\* MarketAPI.get_item_price up to the first suspension of its
\* Client.request (market.py lines 63-75), which passes no auth_type.
MarketGetItemPrice(c) ==
    /\ steam.status = "constructed"
    /\ StartVia(c, DefaultAuthType, "local", "get_item_price")

\* `"Access token is required" in str(e)`.
MentionsAccessToken(e) == e.what = "Access token is required but not provided"

\* FamilyRaises with the handlers testing for the API key message.
FamilyRaises_WrongMessage(e) ==
    IF e.type = "ValueError"
    THEN IF e.what = "API key is required but not provided"
         THEN Exc("AuthenticationError", "Access token is required for Family API endpoints", e.attempt)
         ELSE e
    ELSE Exc("SteamAPIError", e.what, e.attempt)

\* The handlers of a FamilyAPI method (family.py lines 365-373, 407-415):
\* a ValueError is turned into AuthenticationError when its message says
\* so and is re-raised as it is otherwise; any other Exception is wrapped
\* into SteamAPIError.
FamilyRaises(e) ==
    IF e.type = "ValueError"
    THEN IF MentionsAccessToken(e)
         THEN Exc("AuthenticationError", "Access token is required for Family API endpoints", e.attempt)
         ELSE e
    ELSE Exc("SteamAPIError", e.what, e.attempt)

\* The handler of MarketAPI.get_item_price (market.py lines 82-86).
MarketRaises(e) ==
    IF e.type \in {"SteamAPIError", "AuthenticationError"} THEN e
    ELSE Exc("SteamAPIError", e.what, e.attempt)

\* The exception that leaves the method the application called: a
\* repository method handles what its Client.request raised before the
\* coroutine is suspended again.
Surfaced(r) ==
    IF r.pc # "raised" THEN NoException
    ELSE IF r.via \in FamilyEndpoints THEN FamilyRaises(r.error)
    ELSE IF r.via \in MarketEndpoints THEN MarketRaises(r.error)
    ELSE r.error

\* An application that constructs a Steam object and calls repository
\* methods on it, one at a time.
NextSteam ==
    \/ SteamInit
    \/ \E c \in DOMAIN calls, endpoint \in FamilyEndpoints : FamilyCall(c, endpoint)
    \/ \E c \in DOMAIN calls : MarketGetItemPrice(c)
    \/ \E c \in DOMAIN calls : PaceWake(c)
    \/ \E c \in DOMAIN calls, resp \in Responses : Respond(c, resp)
    \/ \E c \in DOMAIN calls : ThrottleWake(c)
    \/ \E c \in DOMAIN calls : BackoffWake(c)
    \/ Tick

SpecSteam == InitSteam /\ [][NextSteam]_vars

\* ------------------------------------------------------------------ claims

Last(seq) == seq[Len(seq)]

\* Every dispatch of the call was answered by a transport error.
AllTransportErrors(r) ==
    /\ r.dispatches > 0
    /\ Len(r.resps) = r.dispatches
    /\ \A i \in 1..Len(r.resps) : r.resps[i] = "error"

\* The call received no 429 response.
NoThrottle(r) == \A i \in 1..Len(r.resps) : r.resps[i] # "throttled"

\* The credential the auth_type asks for is not configured.
CredentialAbsent(auth_type) ==
    \/ auth_type = "api_key" /\ api_key \in {None, ""}
    \/ auth_type = "access_token" /\ access_token \in {None, ""}

Abs(x) == IF x < 0 THEN 0 - x ELSE x

\* C1: a request with auth_type "api_key" and no API key, or with auth_type
\* "access_token" and no access token, fails with the missing-credential
\* error and issues no transport request, whatever the Client went through
\* before.
C1_MissingCredentialFailsFast ==
    \A c \in DOMAIN calls :
        LET r == calls[c]
        IN  (r.pc # "idle" /\ CredentialAbsent(r.auth_type)) =>
                /\ r.pc = "raised"
                /\ r.error.type = "ValueError"
                /\ r.error.what \in {"API key is required but not provided",
                                     "Access token is required but not provided"}
                /\ r.dispatches = 0

\* C1 witness: a Client without access token that already dispatched a
\* request refuses an access_token request without a dispatch.
C1_Witness ==
    \E c \in DOMAIN calls :
        /\ calls[c].pc = "raised"
        /\ calls[c].auth_type = "access_token"
        /\ ~Truthy(access_token)
        /\ calls[c].pred_last # NoTime
        /\ calls[c].dispatches = 0

\* C2 (as claimed): a 429 response does not consume a retry slot: after
\* every 429 a further attempt is made, so the loop never runs out (raising
\* a ClientError) on a call whose latest response is a 429.
C2_ThrottleKeepsRetrySlot ==
    \A c \in DOMAIN calls :
        LET r == calls[c]
        IN  ~ ( /\ r.pc = "raised"
                /\ r.resps # << >>
                /\ Last(r.resps) = "throttled"
                /\ r.error.type = "ClientError" )

\* C3: when every attempt fails with a transport error and no 429 is
\* received, the call issues exactly MAX_RETRIES + 1 dispatches and then
\* fails: it never dispatches more, and it raises the transport error
\* exactly when the dispatch MAX_RETRIES + 1 has failed.
C3_ExactlyMaxRetriesPlusOne ==
    \A c \in DOMAIN calls :
        LET r == calls[c]
        IN  AllTransportErrors(r) =>
                /\ r.dispatches <= settings.MAX_RETRIES + 1
                /\ (r.pc = "raised" /\ r.error.type = "ClientError")
                       <=> (r.dispatches = settings.MAX_RETRIES + 1)

\* C3 witness: MAX_RETRIES = 2 and three failed dispatches.
C3_Witness ==
    \E c \in DOMAIN calls :
        /\ settings.MAX_RETRIES = 2
        /\ AllTransportErrors(calls[c])
        /\ calls[c].dispatches = 3
        /\ calls[c].pc = "raised"

\* C4: when all MAX_RETRIES + 1 attempts fail with transport errors, the
\* exception raised is the transport error of the last attempt: not the
\* one of an earlier attempt, not the generic "unknown reason" error.
C4_LastTransportErrorSurfaces ==
    \A c \in DOMAIN calls :
        LET r == calls[c]
        IN  (AllTransportErrors(r) /\ r.pc = "raised" /\ r.error.type = "ClientError") =>
                /\ r.error.what = "transport failure"
                /\ r.error.attempt = r.dispatches - 1
                /\ r.error.attempt = settings.MAX_RETRIES

\* C4 witness: a call with a retry raised after its attempts ran out.
C4_Witness ==
    \E c \in DOMAIN calls :
        /\ settings.MAX_RETRIES >= 1
        /\ AllTransportErrors(calls[c])
        /\ calls[c].pc = "raised"
        /\ calls[c].error.type = "ClientError"

\* C5: without 429 responses the i-th backoff sleep (the one after the
\* failure of attempt index i - 1) lasts RETRY_DELAY * 2^(i-1); with
\* MAX_RETRIES = 2, two failures and a success the call sleeps d, then 2d,
\* and returns the body of the third attempt, dispatched at least 3d after
\* the first.
C5_ExponentialBackoff ==
    \A c \in DOMAIN calls :
        LET r == calls[c]
            d == settings.RETRY_DELAY
        IN  /\ NoThrottle(r) =>
                \A i \in 1..Len(r.waits) : r.waits[i] = d * (2 ^ (i - 1))
            /\ (settings.MAX_RETRIES = 2 /\ r.resps = <<"error", "error", "ok">>) =>
                /\ r.waits = <<d, 2 * d>>
                /\ r.pc = "returned"
                /\ r.result = 2
                /\ r.dispatches = 3
                /\ r.last_dispatch - r.first_dispatch >= 3 * d

\* C5 witness: two failures, then a success, with MAX_RETRIES = 2.
C5_Witness ==
    \E c \in DOMAIN calls :
        /\ settings.MAX_RETRIES = 2
        /\ calls[c].resps = <<"error", "error", "ok">>

\* C6: an undecodable body is never retried: it is the last response of
\* its call, which raises the decode error at that attempt, with no sleep
\* pending, no backoff wait beyond those of the transport errors before it
\* and no further dispatch.
C6_DecodeFailureNotRetried ==
    \A c \in DOMAIN calls :
        LET r == calls[c]
        IN  \A i \in 1..Len(r.resps) :
                r.resps[i] = "bad_json" =>
                    /\ i = Len(r.resps)
                    /\ r.pc = "raised"
                    /\ r.error.type = "ValueError"
                    /\ r.error.what = "Invalid JSON response"
                    /\ r.error.attempt = i - 1
                    /\ r.dispatches = i
                    /\ r.wake = NoTime
                    /\ Len(r.waits) = Cardinality({j \in 1..(i - 1) : r.resps[j] = "error"})

\* C6 witness: the first response is undecodable while retries are allowed.
C6_Witness ==
    \E c \in DOMAIN calls :
        /\ settings.MAX_RETRIES = 2
        /\ calls[c].resps = <<"bad_json">>
        /\ calls[c].pc = "raised"
        /\ calls[c].dispatches = 1

\* C7 (as claimed): with rate limiting enabled, every dispatch of a call is
\* at least the minimum interval after every dispatch of a call that had
\* returned before it started.
C7_BackToBackSpacing ==
    \A c \in DOMAIN calls :
        LET r == calls[c]
        IN  ( /\ settings.RATE_LIMIT_ENABLED
              /\ r.pred_last # NoTime
              /\ r.first_dispatch # NoTime ) =>
                r.first_dispatch - r.pred_last >= MinInterval

\* C8 (as claimed): with rate limiting enabled, any two dispatches that
\* directly follow a _rate_limit step (the dispatches of attempt 0) are at
\* least the minimum interval apart, in every interleaving.
C8_PacedDispatchesSpaced ==
    \A c1, c2 \in DOMAIN calls :
        ( /\ c1 # c2
          /\ settings.RATE_LIMIT_ENABLED
          /\ calls[c1].first_dispatch # NoTime
          /\ calls[c2].first_dispatch # NoTime ) =>
            Abs(calls[c1].first_dispatch - calls[c2].first_dispatch) >= MinInterval

\* C9: with rate limiting enabled, two calls never both take the no-wait
\* branch of _rate_limit against the same _last_request_time and then both
\* dispatch within one minimum interval.
C9_NoWaitNotShared ==
    \A c1, c2 \in DOMAIN calls :
        ~ ( /\ c1 # c2
            /\ settings.RATE_LIMIT_ENABLED
            /\ calls[c1].branch = "nowait"
            /\ calls[c2].branch = "nowait"
            /\ calls[c1].seen_last = calls[c2].seen_last
            /\ calls[c1].first_dispatch # NoTime
            /\ calls[c2].first_dispatch # NoTime
            /\ Abs(calls[c1].first_dispatch - calls[c2].first_dispatch) < MinInterval )

\* C9 witness: two coroutines both went through the no-wait branch and
\* dispatched, the second while the first was still waiting for its answer.
C9_Witness ==
    \E c1, c2 \in DOMAIN calls :
        /\ c1 # c2
        /\ calls[c1].branch = "nowait"
        /\ calls[c2].branch = "nowait"
        /\ calls[c1].pc = "in_flight"
        /\ calls[c2].pc = "in_flight"
        /\ calls[c1].attempt = 0
        /\ calls[c2].attempt = 0

\* C10 (as claimed): a request that finds no live session, never connected
\* or closed by close(), has created a live one in its lazy connection step
\* by the time it goes on to _rate_limit and its first dispatch.
C10_LiveSessionBeforeDispatch ==
    \A c \in DOMAIN calls : calls[c].branch # None => calls[c].live0


\* C11: whatever connect(), close() and request() calls have happened, at
\* most one ClientSession of the Client is open, and from a state whose
\* session is closed connect() yields a live session that is another
\* object than the closed one.
C11_OneLiveSessionFreshAfterClose ==
    /\ Cardinality(open_sessions) <= 1
    /\ SessionLive(session) => open_sessions = {session.id}
    /\ (session.closed /\ session.id < MaxSessions) =>
           ENABLED (Connect /\ SessionLive(session') /\ session'.id # session.id)

\* A request has run, and the session in use is the one connect() made
\* after a close().
C11_Witness ==
    /\ session.id = 2
    /\ SessionLive(session)
    /\ \E c \in DOMAIN calls : calls[c].pc = "returned"


\* C12: once an `async with Client(...)` / `async with Steam(...)` block
\* has exited, at its end or through an exception of a call inside it, the
\* session is closed and Steam.is_connected is false.
C12_ScopedExitCloses ==
    scope \in {"exited", "exited_on_error"} =>
        /\ session.closed
        /\ open_sessions = {}
        /\ ~IsConnected

\* The block ended because a request that had been sent raised.
C12_Witness ==
    /\ scope = "exited_on_error"
    /\ \E c \in DOMAIN calls : calls[c].pc = "raised" /\ calls[c].dispatches > 0
    /\ session.closed


\* C13: a 429 response makes the call wait, for the number of seconds its
\* Retry-After header spells when it spells one, and for RETRY_DELAY when
\* the header is absent or malformed; the call does not fail on it.
C13_RetryAfterDefaulted ==
    \A c \in DOMAIN calls :
        LET r == calls[c]
        IN  (r.throttled_with # NoResponse /\ r.error.type # "CancelledError") =>
                /\ r.pc = "throttle_sleep"
                /\ r.sleep_for = IF r.throttled_with # None /\ IsFloat(r.throttled_with)
                                 THEN ParseFloat(r.throttled_with)
                                 ELSE settings.RETRY_DELAY


\* C14: every transport request of a call, the first and each retry,
\* carries the params the caller passed (none when it passed None), with
\* 'key' set to the API key for auth_type 'api_key', with 'access_token'
\* set to the access token for 'access_token', and nothing else for 'none'.
C14_SameMergedParamsEveryAttempt ==
    \A c \in DOMAIN calls :
        LET r == calls[c]
            given == r.caller_params
            expected ==
                IF r.auth_type = "api_key"
                THEN {kv \in given : kv[1] # "key"} \cup {<<"key", api_key>>}
                ELSE IF r.auth_type = "access_token"
                THEN {kv \in given : kv[1] # "access_token"}
                         \cup {<<"access_token", access_token>>}
                ELSE given
        IN  /\ Len(r.sent) = r.dispatches
            /\ \A i \in 1..Len(r.sent) : r.sent[i] = expected

\* A call that passed a dict, authenticated with the API key, and was
\* answered after a retry.
C14_Witness ==
    \E c \in DOMAIN calls :
        /\ calls[c].pc = "returned"
        /\ calls[c].auth_type = "api_key"
        /\ calls[c].caller_params = {<<"steamid", "1">>}
        /\ Len(calls[c].sent) = 2
        /\ calls[c].resps = <<"error", "ok">>


\* C15: a call that was answered 429 ends with a transport error only if
\* a transport failure was among its responses, and the error is then that
\* failure; a call whose responses were all 429 does not end with one.
C15_ThrottlingAloneNeverFails ==
    \A c \in DOMAIN calls :
        LET r == calls[c]
            throttled == \E i \in 1..Len(r.resps) : r.resps[i] = "throttled"
            failures  == {i \in 1..Len(r.resps) : r.resps[i] = "error"}
        IN  (r.pc = "raised" /\ r.error.type = "ClientError" /\ throttled) =>
                /\ failures # {}
                /\ r.error.what = "transport failure"


\* C16: an attempt that ran out of time is handled as a transport failure:
\* when it was not the last attempt the call allows, the call sleeps the
\* backoff delay of that attempt in order to try again.
C16_TimeoutIsRetried ==
    \A c \in DOMAIN calls :
        LET r == calls[c]
        IN  (/\ r.resps # << >>
             /\ Last(r.resps) = "timeout"
             /\ Len(r.resps) = r.dispatches
             /\ Len(r.resps) <= settings.MAX_RETRIES) =>
                /\ r.pc = "backoff_sleep"
                /\ r.sleep_for = Backoff(Len(r.resps) - 1)


\* C17: with rate limiting enabled every transport request of a call, a
\* retry after a backoff or after a 429 included, directly follows a
\* pacing step that stamps _last_request_time, so the timestamp is never
\* older than the latest dispatch, and two consecutive dispatches of one
\* call are at least 1/REQUESTS_PER_SECOND apart.
C17_EveryAttemptPaced ==
    \A c \in DOMAIN calls :
        LET r == calls[c]
        IN  (settings.RATE_LIMIT_ENABLED /\ r.last_dispatch # NoTime) =>
                /\ last_request_time >= r.last_dispatch
                /\ r.dispatches = 2 => r.last_dispatch - r.first_dispatch >= MinInterval


\* C18: the n-th backoff sleep of a call lasts RETRY_DELAY * 2^(n-1),
\* however many 429 responses the call got before or between its
\* transport failures.
C18_BackoffCountsFailuresOnly ==
    \A c \in DOMAIN calls :
        \A n \in 1..Len(calls[c].waits) :
            calls[c].waits[n] = settings.RETRY_DELAY * (2 ^ (n - 1))


C20_DisabledLimiterIsInert ==
    ~settings.RATE_LIMIT_ENABLED =>
        /\ last_request_time = 0
        /\ \A c \in DOMAIN calls :
              /\ calls[c].pc # "pace_sleep"
              /\ calls[c].seen_last = NoTime
              /\ calls[c].branch \in {None, "disabled"}

\* With the limiter disabled and REQUESTS_PER_SECOND = 1, a call was
\* dispatched at the very time of the dispatch of the call before it.
C20_Witness ==
    /\ ~settings.RATE_LIMIT_ENABLED
    /\ \E c \in DOMAIN calls :
          /\ calls[c].pc = "returned"
          /\ calls[c].pred_last # NoTime
          /\ calls[c].first_dispatch = calls[c].pred_last


\* C21 as stated: Steam(...) raises ConfigurationError exactly when neither
\* argument is a credential and neither STEAM_API_KEY nor
\* STEAM_ACCESS_TOKEN is set in the environment.
C21_ConfigurationErrorIffNothingSet ==
    steam.status \in {"failed", "constructed"} =>
        (steam.status = "failed" <=>
            /\ ~Truthy(steam.api_key) /\ ~Truthy(steam.access_token)
            /\ steam.env_key = None /\ steam.env_token = None)

\* C21, amended: Steam(...) raises ConfigurationError exactly when neither
\* argument is a credential and neither environment variable holds a
\* non-empty value; then no Client and no repository is created. Otherwise
\* construction succeeds, with each credential taken from the argument or,
\* when the argument is None or empty, from the environment.
C21_ConfigurationErrorIffNoCredential ==
    LET nothing == /\ ~Truthy(steam.api_key) /\ ~Truthy(steam.access_token)
                   /\ ~Truthy(steam.env_key) /\ ~Truthy(steam.env_token)
    IN  steam.status \in {"failed", "constructed"} =>
            /\ steam.status = "failed" <=> nothing
            /\ steam.status = "failed" =>
                  /\ steam.error.type = "ConfigurationError"
                  /\ steam.made = {}
            /\ steam.status = "constructed" =>
                  /\ steam.error = NoException
                  /\ steam.made = SteamParts
                  /\ Truthy(api_key) \/ Truthy(access_token)
                  /\ Truthy(steam.api_key) => api_key = steam.api_key
                  /\ Truthy(steam.access_token) => access_token = steam.access_token

\* Construction failed although an environment variable was set (to the
\* empty string).
C21_Witness ==
    /\ steam.status = "failed"
    /\ steam.env_key = ""
    /\ steam.made = {}

\* Construction succeeded with the access token of the environment as the
\* only credential.
C21_WitnessFromEnv ==
    /\ steam.status = "constructed"
    /\ ~Truthy(api_key)
    /\ access_token = "ENV_TOKEN"


\* C22: a FamilyAPI method called on a Client without an access token
\* raises AuthenticationError, and no transport request is issued for it.
C22_FamilyWithoutTokenFailsFast ==
    \A c \in DOMAIN calls :
        LET r == calls[c]
        IN  (r.via \in FamilyEndpoints /\ ~Truthy(access_token)) =>
                /\ r.pc = "raised"
                /\ Surfaced(r).type = "AuthenticationError"
                /\ r.dispatches = 0
                /\ r.sent = << >>

\* A Steam object built with an API key only, and a FamilyAPI method
\* called on it.
C22_Witness ==
    /\ steam.status = "constructed"
    /\ Truthy(api_key)
    /\ ~Truthy(access_token)
    /\ \E c \in DOMAIN calls :
          /\ calls[c].via = "get_family_group_for_user"
          /\ calls[c].pc = "raised"


\* C23: whatever makes a FamilyAPI method fail, the exception that leaves
\* it is an AuthenticationError or a SteamAPIError.
C23_FamilyErrorsAreSteamAPIErrors ==
    \A c \in DOMAIN calls :
        LET r == calls[c]
        IN  (r.via \in FamilyEndpoints /\ r.pc = "raised") =>
                Surfaced(r).type \in {"AuthenticationError", "SteamAPIError"}


\* C24: MarketAPI.get_item_price needs no credential: on a Client that has
\* an access token and no API key it does not fail for want of a
\* credential, and no transport request of it carries a 'key' parameter.
C24_ItemPriceNeedsNoAuth ==
    \A c \in DOMAIN calls :
        LET r == calls[c]
        IN  r.via = "get_item_price" =>
                /\ \A i \in 1..Len(r.sent) : \A kv \in r.sent[i] : kv[1] # "key"
                /\ (~Truthy(api_key) /\ Truthy(access_token)) =>
                       ~(r.pc = "raised" /\ r.dispatches = 0)


\* An upper bound on the steps a call can still take: two per iteration
\* of the loop that is left (the response, then the wake-up from the sleep
\* it led to), and one more while the call waits for pacing.
StepsLeft(r) ==
    LET iterations == (settings.MAX_RETRIES + 1) - r.attempt
    IN  IF Finished(r) THEN 0
        ELSE IF r.pc = "pace_sleep" THEN 2 * iterations + 1
        ELSE IF r.pc = "in_flight" THEN 2 * iterations
        ELSE 2 * iterations - 1

\* C25: whatever the transport answers, a call issues at most
\* MAX_RETRIES + 1 transport requests, and it ends by returning or raising:
\* while it runs the loop index stays within range(MAX_RETRIES + 1), and
\* each of its steps lowers the number of steps it can still take, so it
\* cannot go on forever, under 429 responses as under any others.
C25_BoundedAttemptsAndTermination ==
    /\ [](\A c \in DOMAIN calls :
            /\ calls[c].dispatches <= settings.MAX_RETRIES + 1
            /\ Len(calls[c].resps) <= calls[c].dispatches
            /\ ~Finished(calls[c]) => calls[c].attempt <= settings.MAX_RETRIES)
    /\ [][\A c \in DOMAIN calls :
            (~Finished(calls[c]) /\ calls'[c] # calls[c]) =>
                StepsLeft(calls'[c]) < StepsLeft(calls[c])]_vars

\* A call with MAX_RETRIES = 2 that was answered 429 three times and has
\* ended.
C25_Witness ==
    \E c \in DOMAIN calls :
        /\ settings.MAX_RETRIES = 2
        /\ calls[c].resps = <<"throttled", "throttled", "throttled">>
        /\ calls[c].dispatches = 3
        /\ calls[c].pc = "raised"


\* C26: a call that fails at the authentication step (missing credential
\* or invalid auth_type) leaves the Client as it was: _last_request_time
\* keeps its value and _session is neither created nor replaced.
C26_FailedAuthLeavesClientUnchanged ==
    [][\A c \in DOMAIN calls :
          (/\ Finished(calls[c])
           /\ calls'[c] # calls[c]
           /\ calls'[c].pc = "raised"
           /\ calls'[c].branch = None
           /\ calls'[c].error.type = "ValueError") =>
              /\ last_request_time' = last_request_time
              /\ session' = session
              /\ open_sessions' = open_sessions]_vars


\* C27: no transport request of a call with auth_type 'none' contains the
\* API key or the access token, whatever calls were made before it and
\* whatever dict they were passed.
C27_NoneCallSendsNoCredential ==
    \A c \in DOMAIN calls :
        calls[c].auth_type = "none" =>
            \A i \in 1..Len(calls[c].sent) :
                \A kv \in calls[c].sent[i] : kv[1] \notin {"key", "access_token"}


\* C28: a call sleeps at most MAX_RETRIES backoffs, each after a failed
\* attempt with an index below MAX_RETRIES and each followed by another
\* transport request; when the attempt with index MAX_RETRIES fails with a
\* transport error the call raises that error without sleeping.
C28_NoBackoffAfterFinalFailure ==
    \A c \in DOMAIN calls :
        LET r == calls[c]
        IN  /\ Len(r.waits) <= settings.MAX_RETRIES
            /\ r.pc = "backoff_sleep" =>
                  /\ r.attempt < settings.MAX_RETRIES
                  /\ r.dispatches = r.attempt + 1
            /\ (r.pc # "backoff_sleep" /\ r.waits # << >>) =>
                  r.dispatches > Len(r.waits)
            /\ (/\ Len(r.resps) = settings.MAX_RETRIES + 1
                /\ Last(r.resps) = "error") =>
                  /\ r.pc = "raised"
                  /\ r.error = TransportError(settings.MAX_RETRIES)

\* A call with MAX_RETRIES = 2 whose three attempts failed: two backoffs,
\* and the error of the third attempt raised.
C28_Witness ==
    \E c \in DOMAIN calls :
        /\ settings.MAX_RETRIES = 2
        /\ calls[c].resps = <<"error", "error", "error">>
        /\ Len(calls[c].waits) = 2
        /\ calls[c].pc = "raised"


\* C29: connect() and close() are idempotent. In every state the client
\* reaches, connect() on a live session keeps that session object and the
\* set of open sessions; close() on a closed or never connected client can
\* be called and changes neither the session nor the open sessions; and a
\* second close() after a close() changes nothing more.
C29_ConnectCloseIdempotent ==
    LET closed1 == CloseSession(session)
        open1   == OpenAfter(closed1, open_sessions)
    IN  /\ SessionLive(session) =>
              /\ ConnectSession(session) = session
              /\ OpenAfter(ConnectSession(session), open_sessions) = open_sessions
        /\ ~SessionLive(session) =>
              /\ closed1 = session
              /\ open1 = open_sessions
              /\ ENABLED Close
        /\ CloseSession(closed1) = closed1
        /\ OpenAfter(CloseSession(closed1), open1) = open1

\* The client was connected, used by a request and closed: the state in
\* which a second close() has nothing left to do.
C29_Witness ==
    /\ session.id = 1
    /\ session.closed
    /\ open_sessions = {}
    /\ \E c \in DOMAIN calls : calls[c].pc = "returned"

\* The client holds a live session after a reconnect: the state in which
\* connect() returns at once.
C29_WitnessLive ==
    /\ session.id = 2
    /\ SessionLive(session)
    /\ open_sessions = {2}

====
